---------------------------- MODULE Spec2Model ----------------------------
(***************************************************************************)
(* PricePointPME: the indicator fetch (fetch_static_data), the merge step  *)
(* of fetch_all_stocks / run_dynamic_analysis, the premarket normaliser    *)
(* (filter_premarket_data), the opportunity ranker (filter_opportunities)  *)
(* and the scrape (fetch_dynamic_data), each as a state machine over its   *)
(* loop; and a whole pipeline run (run_dynamic_analysis, or data_filterPM  *)
(* as a script) next to a static run that writes static_results.json.      *)
(*                                                                         *)
(* Text is a sequence of one-character strings, so that str.replace,       *)
(* str.upper, float() and string comparison are computed character by      *)
(* character.  A number is an exact fraction n/d with d > 0, and d = 0 is   *)
(* nan; IEEE rounding is not modelled.                                     *)
(***************************************************************************)
EXTENDS Integers, Sequences, FiniteSets, TLC

VARIABLES
    \* fetch_static_data
    stock_list, sym_i, var_i, exch_i, rsi, sma, found, static_results, calls, st_pc,
    \* the merge step of fetch_all_stocks and of run_dynamic_analysis
    m_mode, m_list, static_data, dynamic_data, final_results, m_i, m_pc, output,
    \* filter_premarket_data
    pm_file, data, pm_i, filtered, pm_written, pm_pc,
    \* filter_opportunities
    filtered_data, config, rk_i, long_candidates, short_candidates, opportunities, rk_pc,
    \* fetch_dynamic_data
    d_list, d_i, d_pc, playwright, browser, pages, dynamic_results, d_failures,
    \* one pipeline run: run_dynamic_analysis, or data_filterPM run as a script
    run_mode, run_pc, run_log,
    \* static_results.json and the run_static_analysis that writes it
    static_file, prior, w_results, w_pc

----------------------------------------------------------------------------
(* Python values: a JSON/dict value is absent (no key), null (None), a str *)
(* or a number.  One record shape for all of them.                         *)

Absent == [t |-> "absent", s |-> <<>>, n |-> 0, d |-> 1]
None == [t |-> "null", s |-> <<>>, n |-> 0, d |-> 1]
Str(chars) == [t |-> "str", s |-> chars, n |-> 0, d |-> 1]
Num(num, den) == [t |-> "num", s |-> <<>>, n |-> num, d |-> den]

\* dict.get(key): a missing key reads as None
Get(v) == IF v.t = "absent" THEN None ELSE v

\* dict.get(key, default)
GetDefault(v, default) == IF v.t = "absent" THEN default ELSE v

NA == <<"N", "/", "A">>

Digits == {"0", "1", "2", "3", "4", "5", "6", "7", "8", "9"}

DigitVal(c) ==
    CASE c = "0" -> 0 [] c = "1" -> 1 [] c = "2" -> 2 [] c = "3" -> 3
      [] c = "4" -> 4 [] c = "5" -> 5 [] c = "6" -> 6 [] c = "7" -> 7
      [] c = "8" -> 8 [] c = "9" -> 9

DigitChar(k) ==
    CASE k = 0 -> "0" [] k = 1 -> "1" [] k = 2 -> "2" [] k = 3 -> "3"
      [] k = 4 -> "4" [] k = 5 -> "5" [] k = 6 -> "6" [] k = 7 -> "7"
      [] k = 8 -> "8" [] k = 9 -> "9"

\* code points of the characters the model's texts are written with
Ord(c) ==
    CASE c = "%" -> 37 [] c = "+" -> 43 [] c = "," -> 44 [] c = "-" -> 45
      [] c = "." -> 46 [] c = "/" -> 47
      [] c \in Digits -> 48 + DigitVal(c)
      [] c = "A" -> 65 [] c = "N" -> 78 [] c = "_" -> 95
      [] c = "a" -> 97 [] c = "b" -> 98 [] c = "c" -> 99
      [] c = "e" -> 101 [] c = "n" -> 110 [] c = "o" -> 111
      [] OTHER -> 120

\* str.upper() on one character
UpperChar(c) ==
    CASE c = "a" -> "A" [] c = "b" -> "B" [] c = "c" -> "C" [] c = "e" -> "E"
      [] c = "n" -> "N" [] c = "o" -> "O" [] c = "x" -> "X"
      [] OTHER -> c

Upper(s) == [i \in 1..Len(s) |-> UpperChar(s[i])]

\* s.replace(old, new) for single characters
ReplaceChar(s, old, new) == [i \in 1..Len(s) |-> IF s[i] = old THEN new ELSE s[i]]

\* s.replace(",", "")
IsNotComma(c) == c # ","
StripCommas(s) == SelectSeq(s, IsNotComma)

RECURSIVE Pow10(_)
Pow10(k) == IF k = 0 THEN 1 ELSE 10 * Pow10(k - 1)

RECURSIVE DigitsVal(_)
DigitsVal(s) ==
    IF s = <<>> THEN 0
    ELSE 10 * DigitsVal(SubSeq(s, 1, Len(s) - 1)) + DigitVal(s[Len(s)])

IsDigits(s) == \A i \in 1..Len(s) : s[i] \in Digits

\* The result of float(): ok = FALSE is ValueError/TypeError; nan is float('nan').
Fail == [ok |-> FALSE, nan |-> FALSE, n |-> 0, d |-> 1]
Float(num, den) == [ok |-> TRUE, nan |-> FALSE, n |-> num, d |-> den]
NaN == [ok |-> TRUE, nan |-> TRUE, n |-> 0, d |-> 1]

\* float() of an unsigned decimal literal: digits [. [digits]] | . digits
ParseUnsigned(s) ==
    LET dots == {i \in 1..Len(s) : s[i] = "."} IN
    IF dots = {} THEN
        IF Len(s) > 0 /\ IsDigits(s) THEN Float(DigitsVal(s), 1) ELSE Fail
    ELSE IF Cardinality(dots) = 1 THEN
        LET p == CHOOSE i \in dots : TRUE
            ip == SubSeq(s, 1, p - 1)
            fp == SubSeq(s, p + 1, Len(s))
        IN IF IsDigits(ip) /\ IsDigits(fp) /\ Len(ip) + Len(fp) > 0
           THEN Float(DigitsVal(ip) * Pow10(Len(fp)) + DigitsVal(fp), Pow10(Len(fp)))
           ELSE Fail
    ELSE Fail

\* float() of a str: optional sign, then a decimal literal or "nan" in any case
ParseFloat(s) ==
    LET signed == Len(s) > 0 /\ s[1] \in {"+", "-"}
        body == IF signed THEN SubSeq(s, 2, Len(s)) ELSE s
        u == ParseUnsigned(body)
    IN IF Upper(body) = <<"N", "A", "N">> THEN NaN
       ELSE IF u.ok /\ signed /\ s[1] = "-" THEN Float(0 - u.n, u.d)
       ELSE u

\* float(x): a float is itself, a str is parsed, None raises TypeError
PyFloat(v) ==
    CASE v.t = "num" -> (IF v.d = 0 THEN NaN ELSE Float(v.n, v.d))
      [] v.t = "str" -> ParseFloat(v.s)
      [] OTHER -> Fail

RECURSIVE NatToText(_)
NatToText(k) ==
    IF k < 10 THEN <<DigitChar(k)>>
    ELSE Append(NatToText(k \div 10), DigitChar(k % 10))

RECURSIVE FracToText(_, _)
FracToText(k, den) ==
    IF den <= 1 THEN <<>>
    ELSE <<DigitChar((k * 10) \div den)>> \o FracToText((k * 10) % den, den \div 10)

\* str(x) of a float n/d, d a power of ten: sign, integer part, ".", fraction digits ("0" if none)
NumToText(num, den) ==
    LET a == IF num < 0 THEN 0 - num ELSE num
        frac == FracToText(a % den, den)
    IN (IF num < 0 THEN <<"-">> ELSE <<>>) \o NatToText(a \div den) \o <<".">>
       \o (IF frac = <<>> THEN <<"0">> ELSE frac)

\* str(x)
PyStr(v) ==
    CASE v.t = "str" -> v.s
      [] v.t = "num" -> NumToText(v.n, v.d)
      [] OTHER -> <<"N", "o", "n", "e">>

\* a float as a value of a dict
FloatVal(f) == IF f.nan THEN Num(0, 0) ELSE Num(f.n, f.d)

\* (a / b) * 100 for b # 0
PercentOf(a, b) ==
    IF a.nan \/ b.nan THEN NaN
    ELSE IF b.n > 0 THEN Float(a.n * b.d * 100, a.d * b.n)
    ELSE Float(0 - (a.n * b.d * 100), a.d * (0 - b.n))

\* Python truthiness: None, 0, 0.0 and "" are false
Truthy(v) ==
    CASE v.t = "num" -> v.n # 0
      [] v.t = "str" -> v.s # <<>>
      [] OTHER -> FALSE

\* float comparisons; every comparison with nan is False
FloatLt(a, b) == ~a.nan /\ ~b.nan /\ a.n * b.d < b.n * a.d
FloatLe(a, b) == ~a.nan /\ ~b.nan /\ a.n * b.d <= b.n * a.d
FloatGt(a, b) == FloatLt(b, a)
FloatGe(a, b) == FloatLe(b, a)
FloatEq(a, b) == ~a.nan /\ ~b.nan /\ a.n * b.d = b.n * a.d

----------------------------------------------------------------------------
(* fetch_static_data                                                       *)

MaxSymbols == 2

AAPL == <<"A", "A", "P", "L">>
BRK_A == <<"B", "R", "K", "-", "A">>
Tickers == {AAPL, BRK_A}

RECURSIVE SeqsUpTo(_, _)
SeqsUpTo(S, k) ==
    IF k = 0 THEN {<<>>}
    ELSE LET shorter == SeqsUpTo(S, k - 1)
         IN shorter \cup {Append(q, x) : q \in {r \in shorter : Len(r) = k - 1}, x \in S}

get_symbol_variants(symbol) ==
    IF \E i \in 1..Len(symbol) : symbol[i] = "-"
    THEN <<symbol, ReplaceChar(symbol, "-", ".")>>
    ELSE <<symbol>>

Exchanges == <<"NASDAQ", "NYSE">>

\* what analysis.indicators can hold for "RSI" and "SMA20"
RsiValues == {None, Num(25, 1), Num(80, 1)}
SmaValues == {None, Num(10, 1)}

Symbol == stock_list[sym_i]
Variant == get_symbol_variants(Symbol)[var_i]

Call(outcome, r, s) ==
    [variant |-> Variant, exchange |-> Exchanges[exch_i], outcome |-> outcome,
     rsi |-> r, sma |-> s]

\* the log of TA_Handler lookups made for the symbol being searched
Logged(c) == IF var_i = 1 /\ exch_i = 1 THEN <<c>> ELSE Append(calls, c)

InitStatic ==
    /\ stock_list \in SeqsUpTo(Tickers, MaxSymbols)
    /\ sym_i = 1
    /\ var_i = 1
    /\ exch_i = 1
    /\ rsi = None
    /\ sma = None
    /\ found = FALSE
    /\ static_results = <<>>
    /\ calls = <<>>
    /\ st_pc = IF stock_list = <<>> THEN "done" ELSE "lookup"

\* the loops' next position after a lookup that did not break
NextCandidate ==
    IF exch_i < Len(Exchanges)
    THEN /\ exch_i' = exch_i + 1
         /\ UNCHANGED <<var_i, st_pc>>
    ELSE IF var_i < Len(get_symbol_variants(Symbol))
    THEN /\ var_i' = var_i + 1
         /\ exch_i' = 1
         /\ UNCHANGED st_pc
    ELSE /\ st_pc' = "store"
         /\ UNCHANGED <<var_i, exch_i>>

\* LookupFound without the breaks: the search goes on after a full answer
LookupFound_NoBreak ==
    /\ st_pc = "lookup"
    /\ \E r \in RsiValues \ {None}, s \in SmaValues \ {None} :
        /\ rsi' = r
        /\ sma' = s
        /\ calls' = Logged(Call("ok", r, s))
    /\ found' = TRUE
    /\ NextCandidate
    /\ UNCHANGED <<stock_list, sym_i, static_results>>

\* get_analysis() returned both indicators: found, and both loops break
LookupFound ==
    /\ st_pc = "lookup"
    /\ \E r \in RsiValues \ {None}, s \in SmaValues \ {None} :
        /\ rsi' = r
        /\ sma' = s
        /\ calls' = Logged(Call("ok", r, s))
    /\ found' = TRUE
    /\ st_pc' = "store"
    /\ UNCHANGED <<stock_list, sym_i, var_i, exch_i, static_results>>

\* get_analysis() returned, but at least one indicator is None
LookupPartial ==
    /\ st_pc = "lookup"
    /\ \E r \in RsiValues, s \in SmaValues :
        /\ r = None \/ s = None
        /\ rsi' = r
        /\ sma' = s
        /\ calls' = Logged(Call("ok", r, s))
    /\ NextCandidate
    /\ UNCHANGED <<stock_list, sym_i, found, static_results>>

\* "Exchange or symbol not found": continue
LookupNotFound ==
    /\ st_pc = "lookup"
    /\ calls' = Logged(Call("notfound", None, None))
    /\ NextCandidate
    /\ UNCHANGED <<stock_list, sym_i, rsi, sma, found, static_results>>

\* any other exception: logged at debug level, the loop goes on
LookupError ==
    /\ st_pc = "lookup"
    /\ calls' = Logged(Call("error", None, None))
    /\ NextCandidate
    /\ UNCHANGED <<stock_list, sym_i, rsi, sma, found, static_results>>

\* static_results[symbol] = {"rsi": rsi, "sma": sma}, then the next symbol
StoreResult ==
    /\ st_pc = "store"
    /\ static_results' =
         [k \in (DOMAIN static_results) \cup {Symbol} |->
            IF k = Symbol THEN [rsi |-> rsi, sma |-> sma] ELSE static_results[k]]
    /\ sym_i' = sym_i + 1
    /\ var_i' = 1
    /\ exch_i' = 1
    /\ rsi' = None
    /\ sma' = None
    /\ found' = FALSE
    /\ st_pc' = IF sym_i < Len(stock_list) THEN "lookup" ELSE "done"
    /\ UNCHANGED <<stock_list, calls>>

\* the candidate order of the search: variant first, and per variant NASDAQ, NYSE
CandidateOrder(symbol) ==
    LET vs == get_symbol_variants(symbol) IN
    [k \in 1..(2 * Len(vs)) |->
        [variant |-> vs[((k - 1) \div 2) + 1],
         exchange |-> IF k % 2 = 1 THEN "NASDAQ" ELSE "NYSE"]]

\* the lookups of a log that returned both indicator values
BothCalls(log) ==
    {k \in 1..Len(log) :
        log[k].outcome = "ok" /\ log[k].rsi # None /\ log[k].sma # None}

\* a symbol's record has just been written: calls is that symbol's whole log
JustStored == sym_i > 1 /\ var_i = 1 /\ exch_i = 1 /\ st_pc \in {"lookup", "done"}
StoredSymbol == stock_list[sym_i - 1]

\* the symbol the log belongs to
LogSymbol == IF JustStored \/ st_pc = "done" THEN StoredSymbol ELSE Symbol

(* C2: when no lookup of a symbol returned both indicator values, the      *)
(* symbol's record has rsi and sma both unset.                             *)
C2_NoSuccessLeavesUnset ==
    (JustStored /\ BothCalls(calls) = {}) =>
        static_results[StoredSymbol] = [rsi |-> None, sma |-> None]

(* C3: the lookups of a symbol follow the candidate order (variant first,  *)
(* NASDAQ then NYSE); nothing is looked up after the first lookup that     *)
(* returned both values; the record holds exactly that lookup's values;    *)
(* and when no lookup returned both, every candidate was tried, whatever   *)
(* was raised on the way.                                                  *)
C3_FirstFoundWins ==
    (stock_list # <<>> /\ calls # <<>>) =>
        LET order == CandidateOrder(LogSymbol) IN
        /\ Len(calls) <= Len(order)
        /\ \A k \in 1..Len(calls) :
            /\ calls[k].variant = order[k].variant
            /\ calls[k].exchange = order[k].exchange
        /\ \A k \in BothCalls(calls) : k = Len(calls)
        /\ JustStored =>
            IF BothCalls(calls) # {}
            THEN LET c == calls[Len(calls)] IN
                 static_results[StoredSymbol] = [rsi |-> c.rsi, sma |-> c.sma]
            ELSE Len(calls) = Len(order)

\* a record written from the fourth candidate, found after a not-found, an
\* error and a partial answer
C3_Witness ==
    /\ JustStored
    /\ Len(calls) = 4
    /\ BothCalls(calls) = {4}
    /\ {calls[k].outcome : k \in 1..3} = {"notfound", "error", "ok"}
    /\ static_results[StoredSymbol].rsi = Num(80, 1)

static_vars == <<stock_list, sym_i, var_i, exch_i, rsi, sma, found, static_results, calls, st_pc>>

\* fetch_static_data is not running
StaticIdle ==
    /\ stock_list = <<>>
    /\ sym_i = 1
    /\ var_i = 1
    /\ exch_i = 1
    /\ rsi = None
    /\ sma = None
    /\ found = FALSE
    /\ static_results = <<>>
    /\ calls = <<>>
    /\ st_pc = "done"

----------------------------------------------------------------------------
(* The merge step: fetch_all_stocks (data_fetch.py) and                    *)
(* run_dynamic_analysis (startt.py) hold the same loop; fetch_all_stocks   *)
(* then appends the stats record, run_dynamic_analysis dumps the list.     *)

MaxList == 2

STATS_SYMBOL ==
    <<"_", "_", "D", "Y", "N", "A", "M", "I", "C", "_", "S", "C", "R", "A", "P", "E",
      "_", "S", "T", "A", "T", "S", "_", "_">>

\* One record of a result list: a dict with the keys of the CSV columns and
\* "error"; a key the dict does not hold is Absent.
Stock(symbol, r, s, position, price, pm_price, pm_change, pm_pct) ==
    [symbol |-> symbol, error |-> Absent, rsi |-> r, sma |-> s, position |-> position,
     price |-> price, premarket_price |-> pm_price, premarket_change |-> pm_change,
     premarket_change_percent |-> pm_pct,
     dynamic_scrape_total_seconds |-> Absent, dynamic_scrape_avg_seconds |-> Absent]

StatsRecord(total, avg) ==
    [symbol |-> STATS_SYMBOL, error |-> Absent, rsi |-> Absent, sma |-> Absent,
     position |-> Absent, price |-> Absent, premarket_price |-> Absent,
     premarket_change |-> Absent, premarket_change_percent |-> Absent,
     dynamic_scrape_total_seconds |-> total, dynamic_scrape_avg_seconds |-> avg]

\* the indicator records a static run can have left: nothing found, an sma of
\* 0.0, 10.0, 12.5, and (a hand-edited artifact) the texts "1,000" and "x"
StaticRecords ==
    {[rsi |-> None, sma |-> None],
     [rsi |-> Num(25, 1), sma |-> Num(0, 1)],
     [rsi |-> Num(25, 1), sma |-> Num(10, 1)],
     [rsi |-> Num(80, 1), sma |-> Num(125, 10)],
     [rsi |-> Num(80, 1), sma |-> Str(<<"1", ",", "0", "0", "0">>)],
     [rsi |-> Num(25, 1), sma |-> Str(<<"x">>)]}

\* the scrape records fetch_dynamic_data can return: premarket_change is
\* always "N/A", the other fields are an element's text or "N/A"
ScrapeRecord(price, pm_pct) ==
    [price |-> Str(price), premarket_price |-> Str(NA), premarket_change |-> Str(NA),
     premarket_change_percent |-> Str(pm_pct)]

ScrapeRecords ==
    {ScrapeRecord(NA, NA),
     ScrapeRecord(<<"5">>, NA),
     ScrapeRecord(<<"1", "2", ".", "5", "0">>, <<"+", "1", ".", "2", "%">>),
     ScrapeRecord(<<"1", ",", "2", "5", "0", ".", "5">>, <<"3", ".", "5">>),
     ScrapeRecord(<<"-", "1">>, NA),
     ScrapeRecord(<<>>, NA)}

Range(q) == {q[i] : i \in 1..Len(q)}

\* d.get(symbol, {}) on a mapping symbol -> dict
Lookup(mapping, symbol, empty) ==
    IF symbol \in DOMAIN mapping THEN mapping[symbol] ELSE empty

NoIndicators == [rsi |-> Absent, sma |-> Absent]
NoScrape ==
    [price |-> Absent, premarket_price |-> Absent, premarket_change |-> Absent,
     premarket_change_percent |-> Absent]

Above == Str(<<"A", "b", "o", "v", "e", " ", "S", "M", "A">>)
Below == Str(<<"B", "e", "l", "o", "w", " ", "S", "M", "A">>)

\* position: "N/A" unless price != "N/A" and sma is truthy and both float()
\* calls succeed (any exception is swallowed)
Position(price, sma_v) ==
    IF price # Str(NA) /\ Truthy(sma_v)
    THEN IF price.t # "str" THEN Str(NA)
         ELSE LET price_val == ParseFloat(StripCommas(price.s))
                  sma_val == ParseFloat(StripCommas(PyStr(sma_v)))
              IN IF ~price_val.ok \/ ~sma_val.ok THEN Str(NA)
                 ELSE IF FloatGt(price_val, sma_val) THEN Above ELSE Below
    ELSE Str(NA)

\* the record the loop body builds for one symbol
MergedRecord(symbol) ==
    LET rsi_sma == Lookup(static_data, symbol, NoIndicators)
        dyn == Lookup(dynamic_data, symbol, NoScrape)
        price == GetDefault(dyn.price, Str(NA))
        sma_v == Get(rsi_sma.sma)
    IN Stock(symbol, Get(rsi_sma.rsi), sma_v, Position(price, sma_v), price,
             GetDefault(dyn.premarket_price, Str(NA)),
             GetDefault(dyn.premarket_change, Str(NA)),
             GetDefault(dyn.premarket_change_percent, Str(NA)))

\* the f"{x:.2f}" texts of dyn_total and dyn_avg
StatsTotal == Str(<<"7", ".", "5", "0">>)
StatsAvg == Str(<<"3", ".", "7", "5">>)

InitMerge ==
    /\ m_mode \in {"fetch_all_stocks", "run_dynamic_analysis"}
    /\ m_list \in SeqsUpTo(Tickers, MaxList)
    \* fetch_static_data and fetch_dynamic_data give every symbol of the list
    \* an entry; static_results.json may lack symbols, or be unreadable ({})
    /\ \E D \in SUBSET Range(m_list) :
        /\ m_mode = "fetch_all_stocks" => D = Range(m_list)
        /\ static_data \in [D -> StaticRecords]
    /\ dynamic_data \in [Range(m_list) -> ScrapeRecords]
    /\ final_results = <<>>
    /\ m_i = 1
    /\ output = <<>>
    /\ m_pc = IF m_list # <<>> THEN "merge"
              ELSE IF m_mode = "fetch_all_stocks" THEN "stats" ELSE "dump"

\* one iteration of "for symbol in stock_list"
MergeSymbol ==
    /\ m_pc = "merge"
    /\ final_results' = Append(final_results, MergedRecord(m_list[m_i]))
    /\ m_i' = m_i + 1
    /\ m_pc' = IF m_i < Len(m_list) THEN "merge"
               ELSE IF m_mode = "fetch_all_stocks" THEN "stats" ELSE "dump"
    /\ UNCHANGED <<m_mode, m_list, static_data, dynamic_data, output>>

\* fetch_all_stocks: append the stats record and return the list
AppendStats ==
    /\ m_pc = "stats"
    /\ final_results' = Append(final_results, StatsRecord(StatsTotal, StatsAvg))
    /\ output' = final_results'
    /\ m_pc' = "done"
    /\ UNCHANGED <<m_mode, m_list, static_data, dynamic_data, m_i>>

\* run_dynamic_analysis: dump_data_to_csv(final_results), dump_data_to_json(final_results)
DumpResults ==
    /\ m_pc = "dump"
    /\ output' = final_results
    /\ m_pc' = "done"
    /\ UNCHANGED <<m_mode, m_list, static_data, dynamic_data, final_results, m_i>>

\* the merged per-symbol records built so far (the stats record is not one)
MergedRecords == {final_results[k] : k \in {j \in 1..Len(final_results) :
                                            final_results[j].symbol # STATS_SYMBOL}}

\* "parses as a number after stripping thousands separators"
PriceParses(r) == r.price.t = "str" /\ ParseFloat(StripCommas(r.price.s)).ok
SmaParses(r) ==
    r.sma.t \in {"num", "str"} /\ ParseFloat(StripCommas(PyStr(r.sma))).ok
PriceAboveSma(r) ==
    FloatGt(ParseFloat(StripCommas(r.price.s)), ParseFloat(StripCommas(PyStr(r.sma))))

(* C1: in every merged record, when price and sma both parse as numbers    *)
(* (thousands separators stripped) position is "Above SMA" exactly when    *)
(* price > sma and "Below SMA" otherwise; position is "N/A" only when      *)
(* price or sma is missing or not numeric.  For every numeric sma, 0       *)
(* included.                                                               *)
C1_PositionFromPriceAndSma ==
    \A r \in MergedRecords :
        IF PriceParses(r) /\ SmaParses(r)
        THEN r.position = (IF PriceAboveSma(r) THEN Above ELSE Below)
        ELSE r.position = Str(NA)

\* how often the stats record occurs in a list
StatsCount(q) == Cardinality({k \in 1..Len(q) : q[k].symbol = STATS_SYMBOL})

(* C10: the list a dynamic run hands out (returned by fetch_all_stocks,    *)
(* dumped by run_dynamic_analysis) holds the stats record exactly once.    *)
C10_StatsExactlyOnce == m_pc = "done" => StatsCount(output) = 1

\* the positions of final_results that hold a merged per-symbol record
MergedAt == {k \in 1..Len(final_results) : final_results[k].symbol # STATS_SYMBOL}

(* C13: every merged record's symbol is drawn from the input symbol list   *)
(* and no two merged records of a run carry the same symbol, for every     *)
(* input list, lists that name a ticker more than once included.           *)
C13_SymbolsUniqueAndFromList ==
    \A j \in MergedAt :
        /\ final_results[j].symbol \in Range(m_list)
        /\ \A k \in MergedAt : k # j => final_results[k].symbol # final_results[j].symbol

merge_vars == <<m_mode, m_list, static_data, dynamic_data, final_results, m_i, m_pc, output>>

\* no merge is running
MergeIdle ==
    /\ m_mode = "fetch_all_stocks"
    /\ m_list = <<>>
    /\ static_data = <<>>
    /\ dynamic_data = <<>>
    /\ final_results = <<>>
    /\ m_i = 1
    /\ output = <<>>
    /\ m_pc = "done"

----------------------------------------------------------------------------
(* filter_premarket_data.  filtered holds references to the dicts of data  *)
(* (the loop appends the very dict it has just changed in place), so it is *)
(* a sequence of indices into data.                                        *)

MaxData == 2

\* a per-symbol record of the combined-results file, as the merge step wrote it
PmStock(price, change) ==
    Stock(AAPL, Num(25, 1), Num(10, 1), Below, price, Str(NA), change,
          Str(<<"+", "1", ".", "2", "%">>))

PmPrices ==
    {Str(NA), Str(<<"n", "/", "a">>), Str(<<"a", "b", "c">>), Str(<<"0">>),
     Str(<<"0", ".", "0">>), Str(<<"1", ",", "5", "0", "0", ".", "0", "0">>)}

PmChanges ==
    {Str(NA), Str(<<"3", "0", ".", "0", "0">>), Str(<<"x">>), Absent}

\* records carrying an "error" key
Errored(r) == [r EXCEPT !.error = Str(<<"t", "i", "m", "e", "o", "u", "t">>)]

PmRecords ==
    {PmStock(p, c) : p \in PmPrices, c \in PmChanges}
    \cup {PmStock(None, Str(<<"3">>)),
          PmStock(Num(150, 1), Str(<<"-", "3">>)),
          PmStock(Str(<<"N", ",", "/", "A">>), Str(<<"x">>)),
          PmStock(Str(<<"2">>), Str(<<"n", "/", "A">>))}
    \cup {StatsRecord(StatsTotal, StatsAvg),
          Errored([StatsRecord(StatsTotal, StatsAvg) EXCEPT !.price = Str(<<"a", "b", "c">>)])}
    \cup {Errored(PmStock(Str(<<"5">>), Str(<<"1">>))),
          Errored(PmStock(Str(NA), Str(NA)))}

\* FilterRecord with parse failures kept as "N/A"
FilterRecord_SoftDefault(stock) ==
    IF stock.symbol = STATS_SYMBOL THEN [keep |-> TRUE, stock |-> stock]
    ELSE IF stock.error.t # "absent" THEN [keep |-> FALSE, stock |-> stock]
    ELSE
        LET price_str == StripCommas(PyStr(GetDefault(stock.price, Str(NA))))
            change_str == StripCommas(PyStr(GetDefault(stock.premarket_change, Str(NA))))
            price == ParseFloat(price_str)
            change == ParseFloat(change_str)
        IN IF Upper(price_str) = NA \/ Upper(change_str) = NA
              \/ ~price.ok \/ ~change.ok \/ FloatEq(price, Float(0, 1))
           THEN [keep |-> TRUE,
                 stock |-> [stock EXCEPT !.premarket_change_percent = Str(NA)]]
           ELSE [keep |-> TRUE,
                 stock |-> [stock EXCEPT !.premarket_change_percent =
                                FloatVal(PercentOf(change, price))]]

\* FilterRecord without the test for a zero price: the division raises
\* ZeroDivisionError, which the except clause turns into a dropped record
FilterRecord_NoZeroTest(stock) ==
    IF stock.symbol = STATS_SYMBOL THEN [keep |-> TRUE, stock |-> stock]
    ELSE IF stock.error.t # "absent" THEN [keep |-> FALSE, stock |-> stock]
    ELSE
        LET price_str == StripCommas(PyStr(GetDefault(stock.price, Str(NA))))
            change_str == StripCommas(PyStr(GetDefault(stock.premarket_change, Str(NA))))
            price == ParseFloat(price_str)
            change == ParseFloat(change_str)
        IN IF Upper(price_str) = NA \/ Upper(change_str) = NA
           THEN [keep |-> TRUE,
                 stock |-> [stock EXCEPT !.premarket_change_percent = Str(NA)]]
           ELSE IF ~price.ok \/ ~change.ok \/ FloatEq(price, Float(0, 1))
           THEN [keep |-> FALSE, stock |-> stock]
           ELSE [keep |-> TRUE,
                 stock |-> [stock EXCEPT !.premarket_change_percent =
                                FloatVal(PercentOf(change, price))]]

\* FilterRecord with errored records appended like the stats record
FilterRecord_KeepErrored(stock) ==
    IF stock.symbol = STATS_SYMBOL \/ stock.error.t # "absent"
    THEN [keep |-> TRUE, stock |-> stock]
    ELSE
        LET price_str == StripCommas(PyStr(GetDefault(stock.price, Str(NA))))
            change_str == StripCommas(PyStr(GetDefault(stock.premarket_change, Str(NA))))
            price == ParseFloat(price_str)
            change == ParseFloat(change_str)
        IN IF Upper(price_str) = NA \/ Upper(change_str) = NA
           THEN [keep |-> TRUE,
                 stock |-> [stock EXCEPT !.premarket_change_percent = Str(NA)]]
           ELSE IF ~price.ok \/ ~change.ok
           THEN [keep |-> FALSE, stock |-> stock]
           ELSE IF ~FloatEq(price, Float(0, 1))
           THEN [keep |-> TRUE,
                 stock |-> [stock EXCEPT !.premarket_change_percent =
                                FloatVal(PercentOf(change, price))]]
           ELSE [keep |-> TRUE,
                 stock |-> [stock EXCEPT !.premarket_change_percent = Str(NA)]]

\* The loop body on one dict: whether it is appended, and the dict afterwards.
\* float(price_str) is evaluated before float(change_str); either raising
\* leaves the dict as it was and skips the append.
FilterRecord(stock) ==
    IF stock.symbol = STATS_SYMBOL THEN [keep |-> TRUE, stock |-> stock]
    ELSE IF stock.error.t # "absent" THEN [keep |-> FALSE, stock |-> stock]
    ELSE
        LET price_str == StripCommas(PyStr(GetDefault(stock.price, Str(NA))))
            change_str == StripCommas(PyStr(GetDefault(stock.premarket_change, Str(NA))))
            price == ParseFloat(price_str)
            change == ParseFloat(change_str)
        IN IF Upper(price_str) = NA \/ Upper(change_str) = NA
           THEN [keep |-> TRUE,
                 stock |-> [stock EXCEPT !.premarket_change_percent = Str(NA)]]
           ELSE IF ~price.ok \/ ~change.ok
           THEN [keep |-> FALSE, stock |-> stock]
           ELSE IF ~FloatEq(price, Float(0, 1))
           THEN [keep |-> TRUE,
                 stock |-> [stock EXCEPT !.premarket_change_percent =
                                FloatVal(PercentOf(change, price))]]
           ELSE [keep |-> TRUE,
                 stock |-> [stock EXCEPT !.premarket_change_percent = Str(NA)]]

InitPremarket ==
    /\ pm_file \in SeqsUpTo(PmRecords, MaxData)
    /\ data = <<>>
    /\ pm_i = 1
    /\ filtered = <<>>
    /\ pm_written = FALSE
    /\ pm_pc = "read"

\* json.load(f) of the input file
ReadInput ==
    /\ pm_pc = "read"
    /\ data' = pm_file
    /\ pm_pc' = IF pm_file = <<>> THEN "write" ELSE "loop"
    /\ UNCHANGED <<pm_file, pm_i, filtered, pm_written>>

\* the file cannot be opened or parsed: return None, []
ReadFails ==
    /\ pm_pc = "read"
    /\ pm_pc' = "failed"
    /\ UNCHANGED <<pm_file, data, pm_i, filtered, pm_written>>

\* one iteration of "for stock in data"
FilterStep ==
    /\ pm_pc = "loop"
    /\ LET res == FilterRecord(data[pm_i]) IN
        /\ data' = [data EXCEPT ![pm_i] = res.stock]
        /\ filtered' = IF res.keep THEN Append(filtered, pm_i) ELSE filtered
    /\ pm_i' = pm_i + 1
    /\ pm_pc' = IF pm_i < Len(data) THEN "loop" ELSE "write"
    /\ UNCHANGED <<pm_file, pm_written>>

\* json.dump(filtered, f) worked; return output_filename, filtered
WriteOutput ==
    /\ pm_pc = "write"
    /\ pm_written' = TRUE
    /\ pm_pc' = "done"
    /\ UNCHANGED <<pm_file, data, pm_i, filtered>>

\* writing raised: reported, and the function still returns filtered
WriteFails ==
    /\ pm_pc = "write"
    /\ pm_pc' = "done"
    /\ UNCHANGED <<pm_file, data, pm_i, filtered, pm_written>>

\* the list filter_premarket_data returns
Filtered == [j \in 1..Len(filtered) |-> data[filtered[j]]]

\* the records of the input that are per-symbol records without an "error" key
Plain(k) == pm_file[k].symbol # STATS_SYMBOL /\ pm_file[k].error.t = "absent"

\* the texts the filter looks at: str(value) without commas, "N/A" for no key
PriceText(r) == StripCommas(PyStr(GetDefault(r.price, Str(NA))))
ChangeText(r) == StripCommas(PyStr(GetDefault(r.premarket_change, Str(NA))))
IsNA(text) == Upper(text) = NA

\* filter_premarket_data has returned the list it built from the loaded file
PmReturned == pm_pc = "done"

Kept(k) == k \in Range(filtered)

(* C4 as stated: the stats record and every record with an "error" key are *)
(* in the output, every field as in the input.                             *)
C4_SentinelAndErroredPassThrough ==
    PmReturned =>
        \A k \in 1..Len(pm_file) :
            (pm_file[k].symbol = STATS_SYMBOL \/ pm_file[k].error.t # "absent") =>
                Kept(k) /\ data[k] = pm_file[k]

(* C4 amended: the stats record is in the output, every field as in the    *)
(* input; a per-symbol record with an "error" key is left out of the       *)
(* output (and is not changed).                                            *)
C4_SentinelPassesErroredDropped ==
    PmReturned =>
        \A k \in 1..Len(pm_file) :
            /\ pm_file[k].symbol = STATS_SYMBOL => Kept(k) /\ data[k] = pm_file[k]
            /\ (pm_file[k].symbol # STATS_SYMBOL /\ pm_file[k].error.t # "absent") =>
                ~Kept(k) /\ data[k] = pm_file[k]

C4_Witness ==
    /\ PmReturned
    /\ Len(pm_file) = 2
    /\ pm_file[1].symbol # STATS_SYMBOL /\ pm_file[1].error.t # "absent"
    /\ pm_file[2].symbol = STATS_SYMBOL /\ pm_file[2].error.t # "absent"
    /\ filtered = <<2>>

(* C5: a per-symbol record without "error" whose price or premarket_change *)
(* is "N/A" (any case, commas stripped) is kept, with                      *)
(* premarket_change_percent = "N/A" and nothing else changed; one whose    *)
(* price or premarket_change does not parse as a number instead is not in  *)
(* the output; the kept records are in input order.                        *)
C5_NaKeptUnparseableDropped ==
    PmReturned =>
        /\ \A k \in 1..Len(pm_file) :
            Plain(k) =>
                IF IsNA(PriceText(pm_file[k])) \/ IsNA(ChangeText(pm_file[k]))
                THEN /\ Kept(k)
                     /\ data[k] = [pm_file[k] EXCEPT !.premarket_change_percent = Str(NA)]
                ELSE (~ParseFloat(PriceText(pm_file[k])).ok
                      \/ ~ParseFloat(ChangeText(pm_file[k])).ok) => ~Kept(k)
        /\ \A i, j \in 1..Len(filtered) : i < j => filtered[i] < filtered[j]

C5_Witness ==
    /\ PmReturned
    /\ Len(pm_file) = 2
    /\ Plain(1) /\ Plain(2)
    /\ ~IsNA(PriceText(pm_file[1])) /\ ~IsNA(ChangeText(pm_file[1]))
    /\ ~ParseFloat(PriceText(pm_file[1])).ok
    /\ pm_file[2].price = Str(<<"n", "/", "a">>)
    /\ ~ParseFloat(ChangeText(pm_file[2])).ok
    /\ filtered = <<2>>
    /\ data[2].premarket_change_percent = Str(NA)

\* the price of a record parses to zero
ZeroPrice(r) ==
    LET price == ParseFloat(PriceText(r)) IN price.ok /\ FloatEq(price, Float(0, 1))

(* C6 as stated: a per-symbol record without "error" whose price parses to *)
(* zero is kept with premarket_change_percent = "N/A", whatever its        *)
(* premarket_change.                                                       *)
C6_ZeroPriceAlwaysKept ==
    PmReturned =>
        \A k \in 1..Len(pm_file) :
            (Plain(k) /\ ZeroPrice(pm_file[k])) =>
                Kept(k) /\ data[k].premarket_change_percent = Str(NA)

(* C6 amended: a per-symbol record without "error" whose price parses to   *)
(* zero is kept with premarket_change_percent = "N/A" when its             *)
(* premarket_change is "N/A" (or missing) or parses as a number; when its  *)
(* premarket_change does not parse, the record is dropped.                 *)
C6_ZeroPriceKeptIfChangeParses ==
    PmReturned =>
        \A k \in 1..Len(pm_file) :
            (Plain(k) /\ ZeroPrice(pm_file[k])) =>
                IF IsNA(ChangeText(pm_file[k])) \/ ParseFloat(ChangeText(pm_file[k])).ok
                THEN Kept(k) /\ data[k].premarket_change_percent = Str(NA)
                ELSE ~Kept(k)

C6_Witness ==
    /\ PmReturned
    /\ Len(pm_file) = 2
    /\ Plain(1) /\ ZeroPrice(pm_file[1]) /\ ParseFloat(ChangeText(pm_file[1])).ok
    /\ Plain(2) /\ ZeroPrice(pm_file[2]) /\ ~ParseFloat(ChangeText(pm_file[2])).ok
    /\ ~IsNA(ChangeText(pm_file[2]))
    /\ filtered = <<1>>
    /\ data[1].premarket_change_percent = Str(NA)

pm_vars == <<pm_file, data, pm_i, filtered, pm_written, pm_pc>>

\* filter_premarket_data is not running
PremarketIdle ==
    /\ pm_file = <<>>
    /\ data = <<>>
    /\ pm_i = 1
    /\ filtered = <<>>
    /\ pm_written = FALSE
    /\ pm_pc = "done"

----------------------------------------------------------------------------
(* filter_opportunities.  The candidate lists hold references to the dicts *)
(* of filtered_data: sequences of indices into it.                         *)

MaxRank == 2

RSI_LONG_MAX_DEFAULT == 70
RSI_SHORT_MIN_DEFAULT == 30
MIN_PREMARKET_CHANGE_PERCENT_DEFAULT == 2

\* a per-symbol record with the fields the ranker reads
RankStock(r, pm_pct) ==
    Stock(AAPL, r, Num(10, 1), Below, Str(<<"5">>), Str(NA), Str(NA), pm_pct)

RankRecords ==
    {RankStock(r, p) :
        r \in {Num(25, 1), Num(50, 1), Num(80, 1)},
        p \in {Num(5, 1), Num(-7, 1), Num(0, 1), Str(<<"1", "0">>), Str(<<"9">>)}}
    \cup {RankStock(Num(25, 1), Num(8, 1)),
          RankStock(Num(80, 1), Num(-9, 1)),
          RankStock(None, Num(5, 1)),
          RankStock(Num(25, 1), None),
          RankStock(Num(25, 1), Str(NA)),
          RankStock(Num(25, 1), Str(<<"+", "1", ".", "2", "%">>)),
          RankStock(Absent, Absent)}
    \cup {[StatsRecord(StatsTotal, StatsAvg) EXCEPT
              !.rsi = Num(25, 1), !.premarket_change_percent = Num(5, 1)],
          Errored(RankStock(Num(25, 1), Num(5, 1)))}

Config(long_max, short_min, min_pm) ==
    [RSI_LONG_MAX |-> long_max, RSI_SHORT_MIN |-> short_min,
     MIN_PREMARKET_CHANGE_PERCENT |-> min_pm]

\* no keys (the defaults), and three configurations that set all three
Configs ==
    {Config(Absent, Absent, Absent),
     Config(Num(40, 1), Num(60, 1), Num(0, 1)),
     Config(Num(40, 1), Num(60, 1), Num(5, 1)),
     Config(Num(70, 1), Num(30, 1), Num(0, 1))}

rsi_long_max == PyFloat(GetDefault(config.RSI_LONG_MAX, Num(RSI_LONG_MAX_DEFAULT, 1)))
rsi_short_min == PyFloat(GetDefault(config.RSI_SHORT_MIN, Num(RSI_SHORT_MIN_DEFAULT, 1)))
min_pm_change ==
    PyFloat(GetDefault(config.MIN_PREMARKET_CHANGE_PERCENT,
                       Num(MIN_PREMARKET_CHANGE_PERCENT_DEFAULT, 1)))

Negated(f) == [f EXCEPT !.n = 0 - f.n]

\* Classify with the sign of the short threshold lost
Classify_ShortSignSlip(stock) ==
    LET rsi_v == Get(stock.rsi)
        pmchg_pct == Get(stock.premarket_change_percent)
        r == PyFloat(rsi_v)
        p == PyFloat(pmchg_pct)
    IN IF stock.symbol = STATS_SYMBOL \/ stock.error.t # "absent"
          \/ rsi_v = None \/ pmchg_pct = None \/ pmchg_pct = Str(NA)
          \/ ~r.ok
          \/ ((FloatLt(r, rsi_short_min) \/ FloatGt(r, rsi_long_max)) /\ ~p.ok)
       THEN [long |-> FALSE, short |-> FALSE]
       ELSE [long |-> FloatLt(r, rsi_short_min) /\ FloatGe(p, min_pm_change),
             short |-> FloatGt(r, rsi_long_max) /\ FloatLe(p, min_pm_change)]

\* The loop body on one dict: which of the two lists it is appended to.
\* float(rsi) or float(pmchg_pct) raising skips the record (continue);
\* float(pmchg_pct) is only evaluated when the rsi test before it passed.
Classify(stock) ==
    LET rsi_v == Get(stock.rsi)
        pmchg_pct == Get(stock.premarket_change_percent)
        r == PyFloat(rsi_v)
        p == PyFloat(pmchg_pct)
    IN IF stock.symbol = STATS_SYMBOL \/ stock.error.t # "absent"
          \/ rsi_v = None \/ pmchg_pct = None \/ pmchg_pct = Str(NA)
          \/ ~r.ok
          \/ ((FloatLt(r, rsi_short_min) \/ FloatGt(r, rsi_long_max)) /\ ~p.ok)
       THEN [long |-> FALSE, short |-> FALSE]
       ELSE [long |-> FloatLt(r, rsi_short_min) /\ FloatGe(p, min_pm_change),
             short |-> FloatGt(r, rsi_long_max) /\ FloatLe(p, Negated(min_pm_change))]

\* the sort key: x["premarket_change_percent"], or 0 when that is "N/A"
SortKey(k) ==
    LET v == filtered_data[k].premarket_change_percent
    IN IF v # Str(NA) THEN v ELSE Num(0, 1)

\* str < str: by code point, a proper prefix first
RECURSIVE LexLt(_, _)
LexLt(a, b) ==
    IF b = <<>> THEN FALSE
    ELSE IF a = <<>> THEN TRUE
    ELSE IF a[1] = b[1] THEN LexLt(Tail(a), Tail(b))
    ELSE Ord(a[1]) < Ord(b[1])

\* a < b on two sort keys of one type
KeyLt(a, b) ==
    IF a.t = "str" THEN LexLt(a.s, b.s) ELSE FloatLt(PyFloat(a), PyFloat(b))

\* comparing a str key with a number key raises TypeError; a list of keys of
\* both types cannot be sorted without such a comparison
Comparable(q) == \A i, j \in 1..Len(q) : SortKey(q[i]).t = SortKey(q[j]).t

\* sorted(q, key=...): stable, ascending
RECURSIVE SortedAsc(_)
SortedAsc(q) ==
    IF q = <<>> THEN <<>>
    ELSE LET front == SortedAsc(SubSeq(q, 1, Len(q) - 1))
             x == q[Len(q)]
             \* x goes before the first element whose key is greater
             after == {i \in 1..Len(front) : KeyLt(SortKey(x), SortKey(front[i]))}
             at == IF after = {} THEN Len(front) + 1
                   ELSE CHOOSE i \in after : \A j \in after : i <= j
         IN SubSeq(front, 1, at - 1) \o <<x>> \o SubSeq(front, at, Len(front))

\* sorted(q, key=..., reverse=True): stable, descending
RECURSIVE SortedDesc(_)
SortedDesc(q) ==
    IF q = <<>> THEN <<>>
    ELSE LET front == SortedDesc(SubSeq(q, 1, Len(q) - 1))
             x == q[Len(q)]
             \* x goes before the first element whose key is smaller
             after == {i \in 1..Len(front) : KeyLt(SortKey(front[i]), SortKey(x))}
             at == IF after = {} THEN Len(front) + 1
                   ELSE CHOOSE i \in after : \A j \in after : i <= j
         IN SubSeq(front, 1, at - 1) \o <<x>> \o SubSeq(front, at, Len(front))

NoOpportunities == [long |-> <<>>, short |-> <<>>]

InitRank ==
    /\ filtered_data \in SeqsUpTo(RankRecords, MaxRank)
    /\ config \in Configs
    /\ rk_i = 1
    /\ long_candidates = <<>>
    /\ short_candidates = <<>>
    /\ opportunities = NoOpportunities
    /\ rk_pc = IF filtered_data = <<>> THEN "sort" ELSE "loop"

\* one iteration of "for stock in filtered_data"
ClassifyStep ==
    /\ rk_pc = "loop"
    /\ LET c == Classify(filtered_data[rk_i]) IN
        /\ long_candidates' =
             IF c.long THEN Append(long_candidates, rk_i) ELSE long_candidates
        /\ short_candidates' =
             IF c.short THEN Append(short_candidates, rk_i) ELSE short_candidates
    /\ rk_i' = rk_i + 1
    /\ rk_pc' = IF rk_i < Len(filtered_data) THEN "loop" ELSE "sort"
    /\ UNCHANGED <<filtered_data, config, opportunities>>

\* both sorted() calls work; return {"long": ..., "short": ...}
SortCandidates ==
    /\ rk_pc = "sort"
    /\ Comparable(long_candidates)
    /\ Comparable(short_candidates)
    /\ long_candidates' = SortedDesc(long_candidates)
    /\ short_candidates' = SortedAsc(short_candidates)
    /\ opportunities' = [long |-> long_candidates', short |-> short_candidates']
    /\ rk_pc' = "done"
    /\ UNCHANGED <<filtered_data, config, rk_i>>

\* a sorted() call raises TypeError, which leaves filter_opportunities
SortRaises ==
    /\ rk_pc = "sort"
    /\ ~Comparable(long_candidates) \/ ~Comparable(short_candidates)
    /\ rk_pc' = "raised"
    /\ UNCHANGED <<filtered_data, config, rk_i, long_candidates, short_candidates,
                   opportunities>>

\* filter_opportunities has returned or raised
RankEnded == rk_pc \in {"done", "raised"}

\* the record takes part in the classification: not the stats record, no
\* "error" key, an rsi, and a premarket_change_percent that is a number
Eligible(r) ==
    /\ r.symbol # STATS_SYMBOL
    /\ r.error.t = "absent"
    /\ Get(r.rsi) # None
    /\ PyFloat(Get(r.premarket_change_percent)).ok

LongRule(r) ==
    /\ Eligible(r)
    /\ FloatLt(PyFloat(Get(r.rsi)), rsi_short_min)
    /\ FloatGe(PyFloat(Get(r.premarket_change_percent)), min_pm_change)

ShortRule(r) ==
    /\ Eligible(r)
    /\ FloatGt(PyFloat(Get(r.rsi)), rsi_long_max)
    /\ FloatLe(PyFloat(Get(r.premarket_change_percent)), Negated(min_pm_change))

(* C7: for every input list and thresholds, filter_opportunities returns   *)
(* a long set holding exactly the eligible records with                    *)
(* rsi < rsi_short_min and percent >= min_premarket_change_percent, and a  *)
(* short set holding exactly the eligible records with rsi > rsi_long_max  *)
(* and percent <= -min_premarket_change_percent.                           *)
C7_ClassifiedByRule ==
    RankEnded =>
        /\ rk_pc = "done"
        /\ \A k \in 1..Len(filtered_data) :
            /\ k \in Range(opportunities.long) <=> LongRule(filtered_data[k])
            /\ k \in Range(opportunities.short) <=> ShortRule(filtered_data[k])

(* C8 as stated: for every input list and every threshold configuration,   *)
(* no record is in both the long and the short set.                        *)
C8_LongShortDisjoint ==
    rk_pc = "done" => Range(opportunities.long) \cap Range(opportunities.short) = {}

\* thresholds under which no value passes both tests
SaneThresholds ==
    FloatLe(rsi_short_min, rsi_long_max) \/ FloatGt(min_pm_change, Float(0, 1))

(* C8 amended: no record is in both the long and the short set when        *)
(* rsi_short_min <= rsi_long_max or min_premarket_change_percent > 0 (as   *)
(* with the defaults 30, 70, 2.0).                                         *)
C8_DisjointUnderSaneThresholds ==
    SaneThresholds =>
        /\ Range(long_candidates) \cap Range(short_candidates) = {}
        /\ Range(opportunities.long) \cap Range(opportunities.short) = {}

C8_Witness ==
    /\ rk_pc = "done"
    /\ config = Config(Num(40, 1), Num(60, 1), Num(5, 1))
    /\ Len(opportunities.long) = 1
    /\ Len(opportunities.short) = 1
    /\ filtered_data[1].rsi = Num(50, 1)
    /\ filtered_data[2].rsi = Num(50, 1)

\* the percent of the record at position i of a returned sequence, as a number
PercentAt(q, i) == PyFloat(filtered_data[q[i]].premarket_change_percent)

(* C9: for every input the classification accepts (percent held as a       *)
(* number, as a numeric string, or a mix), the sort never fails, the long  *)
(* sequence is non-increasing and the short sequence non-decreasing in the *)
(* numeric value of premarket_change_percent.                              *)
C9_SortedByNumericPercent ==
    RankEnded =>
        /\ rk_pc = "done"
        /\ \A i, j \in 1..Len(opportunities.long) :
            i < j => FloatGe(PercentAt(opportunities.long, i),
                             PercentAt(opportunities.long, j))
        /\ \A i, j \in 1..Len(opportunities.short) :
            i < j => FloatLe(PercentAt(opportunities.short, i),
                             PercentAt(opportunities.short, j))

rank_vars ==
    <<filtered_data, config, rk_i, long_candidates, short_candidates, opportunities, rk_pc>>

\* filter_opportunities is not running
RankIdle ==
    /\ filtered_data = <<>>
    /\ config = Config(Absent, Absent, Absent)
    /\ rk_i = 1
    /\ long_candidates = <<>>
    /\ short_candidates = <<>>
    /\ opportunities = NoOpportunities
    /\ rk_pc = "idle"

----------------------------------------------------------------------------
(* fetch_dynamic_data.  The browser is driven inside                       *)
(* "with sync_playwright() as p:", whose exit stops the Playwright driver  *)
(* and, with it, every browser the driver launched; browser.close() is     *)
(* the last statement of the block.  pages[k] is what the chart page shows *)
(* when the k-th symbol of the list is read: for each of the four DOM      *)
(* locations the element's text, or Absent when the element is missing.    *)

MaxScrape == 2

IsSpace(c) == c = " "

\* str.strip()
RECURSIVE Strip(_)
Strip(s) ==
    IF s = <<>> THEN s
    ELSE IF IsSpace(s[1]) THEN Strip(Tail(s))
    ELSE IF IsSpace(s[Len(s)]) THEN Strip(SubSeq(s, 1, Len(s) - 1))
    ELSE s

Page(price, pm_price, pm_change, pm_pct) ==
    [price |-> price, premarket_price |-> pm_price, premarket_change |-> pm_change,
     premarket_change_percent |-> pm_pct]

\* nothing rendered; a price only; price and percent; all four locations;
\* the premarket change only; a percent without sign and unit
Pages ==
    {Page(Absent, Absent, Absent, Absent),
     Page(Str(<<" ", "5", " ">>), Absent, Absent, Absent),
     Page(Str(<<"1", "2", ".", "5", "0">>), Absent, Absent, Str(<<"+", "1", ".", "2", "%">>)),
     Page(Str(<<"1", "2", ".", "5", "0">>), Str(<<"1", "2", ".", "4", "0">>),
          Str(<<"-", "0", ".", "1", "0">>), Str(<<"-", "0", ".", "8", "%">>)),
     Page(Absent, Absent, Str(<<"-", "0", ".", "1", "0">>), Absent),
     Page(Str(<<"5">>), Str(<<"5", ".", "5">>), Absent, Str(<<" ", "3", ".", "5">>))}

\* element.inner_text().strip() if element else "N/A"
Field(element) == IF element.t = "absent" THEN Str(NA) ELSE Str(Strip(element.s))

\* the dict stored for one symbol: three locations are queried, and
\* premarket_change is the literal "N/A"
ScrapedRecord(page) ==
    [price |-> Field(page.price),
     premarket_price |-> Field(page.premarket_price),
     premarket_change |-> Str(NA),
     premarket_change_percent |-> Field(page.premarket_change_percent)]

\* ScrapedRecord with premarket_change read from its own element
ScrapedRecord_FourLocations(page) ==
    [price |-> Field(page.price),
     premarket_price |-> Field(page.premarket_price),
     premarket_change |-> Field(page.premarket_change),
     premarket_change_percent |-> Field(page.premarket_change_percent)]

\* mapping[key] = value
Store(mapping, key, value) ==
    [k \in DOMAIN mapping \cup {key} |-> IF k = key THEN value ELSE mapping[k]]

\* the statements before the loop, in order
SetupSteps == <<"sync_playwright", "launch", "new_context", "add_cookies", "new_page", "goto">>

SetupAt == CHOOSE k \in 1..Len(SetupSteps) : SetupSteps[k] = d_pc

InitScrape ==
    /\ d_list \in SeqsUpTo(Tickers, MaxScrape)
    /\ d_i = 1
    /\ d_pc = "sync_playwright"
    /\ playwright = "none"
    /\ browser = "none"
    /\ pages = <<>>
    /\ dynamic_results = <<>>
    /\ d_failures = {}

\* one statement of the set-up works
SetupStep ==
    /\ d_pc \in Range(SetupSteps)
    /\ playwright' = IF d_pc = "sync_playwright" THEN "running" ELSE playwright
    /\ browser' = IF d_pc = "launch" THEN "open" ELSE browser
    /\ d_pc' = IF SetupAt < Len(SetupSteps) THEN SetupSteps[SetupAt + 1]
               ELSE IF d_list = <<>> THEN "close" ELSE "loop"
    /\ UNCHANGED <<d_list, d_i, pages, dynamic_results, d_failures>>

\* one statement of the set-up raises: inside the with block the exception
\* unwinds through its exit, sync_playwright() itself failing leaves no block
SetupFails ==
    /\ d_pc \in Range(SetupSteps)
    /\ d_failures' = d_failures \cup {d_pc}
    /\ d_pc' = IF d_pc = "sync_playwright" THEN "raised" ELSE "unwind"
    /\ UNCHANGED <<d_list, d_i, playwright, browser, pages, dynamic_results>>

\* one iteration of the loop without an exception: the wait for the price
\* element may time out (swallowed), then the three elements are queried
ScrapeSymbol ==
    /\ d_pc = "loop"
    /\ \E page \in Pages, timed_out \in BOOLEAN :
        /\ page.price.t = "absent" => timed_out
        /\ pages' = Append(pages, page)
        /\ dynamic_results' = Store(dynamic_results, d_list[d_i], ScrapedRecord(page))
        /\ d_failures' = IF timed_out THEN d_failures \cup {"wait_for_selector"}
                         ELSE d_failures
    /\ d_i' = d_i + 1
    /\ d_pc' = IF d_i < Len(d_list) THEN "loop" ELSE "close"
    /\ UNCHANGED <<d_list, playwright, browser>>

\* a call of the loop body outside the try raises: typing the symbol,
\* query_selector or inner_text
ScrapeRaises ==
    /\ d_pc = "loop"
    /\ \E cause \in {"keyboard", "query_selector", "inner_text"} :
        d_failures' = d_failures \cup {cause}
    /\ d_pc' = "unwind"
    /\ UNCHANGED <<d_list, d_i, playwright, browser, pages, dynamic_results>>

\* browser.close()
CloseBrowser ==
    /\ d_pc = "close"
    /\ browser' = "closed"
    /\ d_pc' = "exit"
    /\ UNCHANGED <<d_list, d_i, playwright, pages, dynamic_results, d_failures>>

\* leaving the with block on a return path only: an exception skips the release
ExitPlaywright_OnlyOnReturn ==
    /\ d_pc \in {"exit", "unwind"}
    /\ playwright' = IF d_pc = "exit" THEN "stopped" ELSE playwright
    /\ browser' = browser
    /\ d_pc' = IF d_pc = "exit" THEN "returned" ELSE "raised"
    /\ UNCHANGED <<d_list, d_i, pages, dynamic_results, d_failures>>

\* leaving "with sync_playwright() as p", by falling out of the block or by
\* an exception: the driver is stopped and a browser still open goes with it
ExitPlaywright ==
    /\ d_pc \in {"exit", "unwind"}
    /\ playwright' = "stopped"
    /\ browser' = IF browser = "open" THEN "closed" ELSE browser
    /\ d_pc' = IF d_pc = "exit" THEN "returned" ELSE "raised"
    /\ UNCHANGED <<d_list, d_i, pages, dynamic_results, d_failures>>

\* fetch_dynamic_data has returned dynamic_results, or raised
ScrapeEnded == d_pc \in {"returned", "raised"}

(* C11: on every exit of fetch_dynamic_data after the browser was launched, *)
(* by return or by an exception of the set-up or of the loop, the browser   *)
(* is closed and the Playwright session is stopped.                         *)
C11_BrowserTornDownOnExit ==
    (ScrapeEnded /\ browser # "none") => (browser = "closed" /\ playwright = "stopped")

\* an exception of the loop left the function after one symbol was scraped,
\* and the browser is down
C11_Witness ==
    /\ d_pc = "raised"
    /\ "inner_text" \in d_failures
    /\ Len(pages) = 1
    /\ browser = "closed"
    /\ playwright = "stopped"

\* the page read last for the symbol
LastPage(symbol) ==
    pages[CHOOSE k \in 1..Len(pages) :
            /\ d_list[k] = symbol
            /\ \A j \in 1..Len(pages) : d_list[j] = symbol => j <= k]

(* C12: for every scraped symbol each of the four fields is the text of    *)
(* its own DOM location when that element is present, and "N/A" exactly    *)
(* when the element is missing.                                            *)
C12_FieldsFromOwnLocation ==
    \A symbol \in DOMAIN dynamic_results :
        dynamic_results[symbol] = ScrapedRecord_FourLocations(LastPage(symbol))

\* what may go wrong while one symbol's fields are extracted
ExtractionFailures == {"wait_for_selector", "query_selector", "inner_text"}

(* C15: when nothing but the extraction of symbols' fields fails (the      *)
(* wait times out, an element lookup or the reading of its text fails),    *)
(* fetch_dynamic_data does not raise and the mapping it returns has an     *)
(* entry for every input symbol.                                           *)
C15_ExtractionFailureNotFatal ==
    d_failures \subseteq ExtractionFailures =>
        /\ d_pc \notin {"unwind", "raised"}
        /\ d_pc = "returned" => DOMAIN dynamic_results = Range(d_list)

scrape_vars == <<d_list, d_i, d_pc, playwright, browser, pages, dynamic_results, d_failures>>

\* fetch_dynamic_data is not running
ScrapeIdle ==
    /\ d_list = <<>>
    /\ d_i = 1
    /\ d_pc = "idle"
    /\ playwright = "none"
    /\ browser = "none"
    /\ pages = <<>>
    /\ dynamic_results = <<>>
    /\ d_failures = {}

----------------------------------------------------------------------------
(* static_results.json on disk.  The file is a sequence of the chunks      *)
(* json.dump writes: "{", one chunk per key, "}"; torn says that the last  *)
(* chunk has reached the disk in part only.  open(..., "w") empties the    *)
(* file before the first chunk is written.                                 *)

NullText == <<"n", "u", "l", "l">>

\* json.dumps of an indicator value: null, or the repr of the float
JsonEncode(v) == IF v = None THEN NullText ELSE PyStr(v)

RECURSIVE Gcd(_, _)
Gcd(a, b) == IF b = 0 THEN a ELSE Gcd(b, a % b)

\* one representation per number: the fraction in lowest terms
Lowest(v) ==
    IF v.t # "num" \/ v.d = 0 THEN v
    ELSE LET g == Gcd(IF v.n < 0 THEN -v.n ELSE v.n, v.d)
         IN Num(v.n \div g, v.d \div g)

\* json.loads of such a text
JsonDecode(text) ==
    IF text = NullText THEN None ELSE Lowest(FloatVal(ParseFloat(text)))

OpenBrace == [k |-> "{", symbol |-> <<>>, rsi |-> <<>>, sma |-> <<>>]
CloseBrace == [k |-> "}", symbol |-> <<>>, rsi |-> <<>>, sma |-> <<>>]
Entry(symbol, indicators) ==
    [k |-> "entry", symbol |-> symbol, rsi |-> JsonEncode(indicators.rsi),
     sma |-> JsonEncode(indicators.sma)]

KeyOrder == <<AAPL, BRK_A>>

\* the keys of a mapping, in the order they are written
RECURSIVE KeysOf(_, _)
KeysOf(mapping, order) ==
    IF order = <<>> THEN <<>>
    ELSE IF Head(order) \in DOMAIN mapping
    THEN <<Head(order)>> \o KeysOf(mapping, Tail(order))
    ELSE KeysOf(mapping, Tail(order))

\* the text json.dump(static_results, f, indent=2) writes
JsonText(mapping) ==
    LET keys == KeysOf(mapping, KeyOrder)
    IN <<OpenBrace>> \o [i \in 1..Len(keys) |-> Entry(keys[i], mapping[keys[i]])]
       \o <<CloseBrace>>

NoFile == [exists |-> FALSE, text |-> <<>>, torn |-> FALSE]
FileWith(text) == [exists |-> TRUE, text |-> text, torn |-> FALSE]

\* json.load that takes what it can read of a text that is not closed
JsonLoad_Lenient(file) ==
    LET tx == file.text
        whole == IF file.torn THEN Len(tx) - 1 ELSE Len(tx)
        at == {i \in 2..whole : tx[i].k = "entry"}
    IN IF file.exists /\ Len(tx) >= 1 /\ tx[1].k = "{"
       THEN [ok |-> TRUE,
             value |-> [s \in {tx[i].symbol : i \in at} |->
                          LET i == CHOOSE j \in at : tx[j].symbol = s
                          IN [rsi |-> JsonDecode(tx[i].rsi), sma |-> JsonDecode(tx[i].sma)]]]
       ELSE [ok |-> FALSE, value |-> <<>>]

\* open(...) and json.load(f): the file must exist and hold one whole JSON
\* object, "{" first and "}" last; anything else raises
JsonLoad(file) ==
    LET tx == file.text
        n == Len(tx)
        at == 2..(n - 1)
    IN IF /\ file.exists
          /\ ~file.torn
          /\ n >= 2
          /\ tx[1].k = "{"
          /\ tx[n].k = "}"
          /\ \A i \in at : tx[i].k = "entry"
       THEN [ok |-> TRUE,
             value |-> [s \in {tx[i].symbol : i \in at} |->
                          LET i == CHOOSE j \in at : tx[j].symbol = s
                          IN [rsi |-> JsonDecode(tx[i].rsi), sma |-> JsonDecode(tx[i].sma)]]]
       ELSE [ok |-> FALSE, value |-> <<>>]

\* what an earlier, finished static run has left on disk: nothing, or a mapping
Priors ==
    {[exists |-> FALSE, results |-> <<>>],
     [exists |-> TRUE, results |-> [s \in {AAPL} |-> [rsi |-> Num(80, 1), sma |-> Num(25, 2)]]]}

\* what fetch_static_data hands the static run of today
WriterResults ==
    {[s \in {AAPL, BRK_A} |-> [rsi |-> Num(25, 1), sma |-> Num(10, 1)]],
     [s \in {AAPL} |-> [rsi |-> None, sma |-> None]]}

\* run_static_analysis: open("static_results.json", "w")
WriterOpen ==
    /\ w_pc = "fetch"
    /\ static_file' = FileWith(<<>>)
    /\ w_pc' = "write"
    /\ UNCHANGED <<prior, w_results>>

\* json.dump: the next chunk reaches the disk, whole or in part, or the
\* rest of a chunk written in part does
WriterWrite ==
    /\ w_pc = "write"
    /\ IF static_file.torn
       THEN static_file' = [static_file EXCEPT !.torn = FALSE]
       ELSE /\ Len(static_file.text) < Len(JsonText(w_results))
            /\ \E part \in BOOLEAN :
                static_file' =
                    [static_file EXCEPT
                        !.text = Append(@, JsonText(w_results)[Len(@) + 1]),
                        !.torn = part]
    /\ UNCHANGED <<prior, w_results, w_pc>>

\* the with block of the write is left: the file is closed
WriterClose ==
    /\ w_pc = "write"
    /\ ~static_file.torn
    /\ Len(static_file.text) = Len(JsonText(w_results))
    /\ w_pc' = "done"
    /\ UNCHANGED <<static_file, prior, w_results>>

disk_vars == <<static_file, prior, w_results, w_pc>>

\* no static run, no file
DiskIdle ==
    /\ static_file = NoFile
    /\ prior = [exists |-> FALSE, results |-> <<>>]
    /\ w_results = <<>>
    /\ w_pc = "idle"

----------------------------------------------------------------------------
(* One pipeline run.  run_dynamic_analysis (startt.py): fetch_dynamic_data, *)
(* load static_results.json, the merge loop, the two dumps,                 *)
(* filter_opportunities, the two messages.  data_filterPM.py run as a       *)
(* script: filter_premarket_data on today's file, filter_opportunities,     *)
(* print.  run_log lists what the run has done.                             *)

RUN_DYNAMIC == "run_dynamic_analysis"
FILTER_MAIN == "data_filterPM"

\* the first list of STOCK_LISTS
RunLists == {<<AAPL>>, <<AAPL, BRK_A>>, <<AAPL, AAPL>>}

\* today's combined-results file, for the script
MainRecords ==
    {PmStock(Str(<<"5", "0">>), Str(<<"3">>)),
     PmStock(Str(<<"5", "0">>), Str(NA)),
     PmStock(Str(<<"a", "b", "c">>), Str(<<"x">>)),
     StatsRecord(StatsTotal, StatsAvg)}

MainFiles == SeqsUpTo(MainRecords, 2)

\* mock_config of the script
MockConfig ==
    Config(Num(RSI_LONG_MAX_DEFAULT, 1), Num(RSI_SHORT_MIN_DEFAULT, 1),
           Num(MIN_PREMARKET_CHANGE_PERCENT_DEFAULT, 1))

InitRun ==
    /\ run_mode \in {RUN_DYNAMIC, FILTER_MAIN}
    /\ run_pc = "start"
    /\ run_log = <<>>
    /\ d_list \in IF run_mode = RUN_DYNAMIC THEN RunLists ELSE {<<>>}
    /\ d_i = 1
    /\ d_pc = "idle"
    /\ playwright = "none"
    /\ browser = "none"
    /\ pages = <<>>
    /\ dynamic_results = <<>>
    /\ d_failures = {}
    /\ pm_file \in IF run_mode = FILTER_MAIN THEN MainFiles ELSE {<<>>}
    /\ data = <<>>
    /\ pm_i = 1
    /\ filtered = <<>>
    /\ pm_written = FALSE
    /\ pm_pc = "done"
    /\ prior \in IF run_mode = RUN_DYNAMIC THEN Priors
                 ELSE {[exists |-> FALSE, results |-> <<>>]}
    /\ static_file = IF prior.exists THEN FileWith(JsonText(prior.results)) ELSE NoFile
    /\ IF run_mode = RUN_DYNAMIC
       THEN w_results \in WriterResults /\ w_pc \in {"idle", "fetch"}
       ELSE w_results = <<>> /\ w_pc = "idle"

\* the run's first call: fetch_dynamic_data(stock_list, tv_cookies, wait_time),
\* or filter_premarket_data(today_file)
RunBegin ==
    /\ run_pc = "start"
    /\ IF run_mode = RUN_DYNAMIC
       THEN /\ d_pc' = "sync_playwright"
            /\ run_pc' = "fetch"
            /\ run_log' = Append(run_log, "fetch")
            /\ UNCHANGED pm_pc
       ELSE /\ pm_pc' = "read"
            /\ run_pc' = "filter"
            /\ run_log' = Append(run_log, "filter")
            /\ UNCHANGED d_pc
    /\ UNCHANGED <<run_mode, d_list, d_i, playwright, browser, pages, dynamic_results,
                   d_failures, pm_file, data, pm_i, filtered, pm_written>>

\* fetch_dynamic_data raising, taken as an empty mapping to go on with
RunFetchRaises_Swallowed ==
    /\ run_pc = "fetch"
    /\ d_pc = "raised"
    /\ run_pc' = "merge"
    /\ UNCHANGED <<run_mode, run_log>>

\* fetch_dynamic_data raised: nothing in run_dynamic_analysis catches it
RunFetchRaises ==
    /\ run_pc = "fetch"
    /\ d_pc = "raised"
    /\ run_pc' = "raised"
    /\ UNCHANGED <<run_mode, run_log>>

\* fetch_dynamic_data returned; static_results.json is read, {} when that
\* raises; final_results = []
RunLoadStatic ==
    /\ run_pc = "fetch"
    /\ d_pc = "returned"
    /\ LET loaded == JsonLoad(static_file) IN
        static_data' = IF loaded.ok THEN loaded.value ELSE <<>>
    /\ dynamic_data' = dynamic_results
    /\ m_mode' = RUN_DYNAMIC
    /\ m_list' = d_list
    /\ final_results' = <<>>
    /\ m_i' = 1
    /\ output' = <<>>
    /\ m_pc' = IF d_list # <<>> THEN "merge" ELSE "dump"
    /\ run_pc' = "merge"
    /\ run_log' = Append(run_log, "load")
    /\ UNCHANGED run_mode

\* dump_data_to_csv and dump_data_to_json
RunDump ==
    /\ run_pc = "merge"
    /\ DumpResults
    /\ run_log' = Append(run_log, "dump")
    /\ UNCHANGED <<run_mode, run_pc>>

\* filter_opportunities(final_results, config): the merged list as it is
RunRank ==
    /\ run_pc = "merge"
    /\ m_pc = "done"
    /\ filtered_data' = final_results
    /\ config' \in Configs
    /\ rk_i' = 1
    /\ long_candidates' = <<>>
    /\ short_candidates' = <<>>
    /\ opportunities' = NoOpportunities
    /\ rk_pc' = IF final_results = <<>> THEN "sort" ELSE "loop"
    /\ run_pc' = "rank"
    /\ run_log' = Append(run_log, "rank")
    /\ UNCHANGED run_mode

\* the script: filter_opportunities(filtered_data, mock_config) on what
\* filter_premarket_data returned
MainRank ==
    /\ run_pc = "filter"
    /\ pm_pc \in {"done", "failed"}
    /\ filtered_data' = IF pm_pc = "failed" THEN <<>> ELSE Filtered
    /\ config' = MockConfig
    /\ rk_i' = 1
    /\ long_candidates' = <<>>
    /\ short_candidates' = <<>>
    /\ opportunities' = NoOpportunities
    /\ rk_pc' = IF filtered_data' = <<>> THEN "sort" ELSE "loop"
    /\ run_pc' = "rank"
    /\ run_log' = Append(run_log, "rank")
    /\ UNCHANGED run_mode

\* the opportunities are handed on: send_opportunity_message, or console.print
RunSend ==
    /\ run_pc = "rank"
    /\ rk_pc = "done"
    /\ run_pc' = "done"
    /\ run_log' = Append(run_log, "send")
    /\ UNCHANGED run_mode

\* the ranker has been called in this run
RankerInvoked == "rank" \in Range(run_log)

\* a premarket_change_percent as filter_premarket_data leaves it: "N/A" or
\* the number it computed
IsNormalized(v) == v = Str(NA) \/ v.t = "num"

(* C14: in every pipeline run the records filter_opportunities is called   *)
(* on have been through filter_premarket_data: the premarket change        *)
(* percent of each per-symbol record is the normalised value ("N/A" or a   *)
(* computed number), never the text as scraped.                            *)
C14_RankerInputNormalized ==
    RankerInvoked =>
        \A k \in 1..Len(filtered_data) :
            filtered_data[k].symbol # STATS_SYMBOL =>
                IsNormalized(filtered_data[k].premarket_change_percent)

\* a statement of the set-up of fetch_dynamic_data has failed in this run
SetupFailed == run_mode = RUN_DYNAMIC /\ d_failures \cap Range(SetupSteps) # {}

(* C16: when the set-up of fetch_dynamic_data fails (starting Playwright,  *)
(* launching the browser, the context, the cookies, the page, the first    *)
(* navigation), the fetch returns no mapping and run_dynamic_analysis does *)
(* nothing further: no load, no dump, no ranking, no message with          *)
(* opportunities, and no second fetch.                                     *)
C16_SetupFailureIsFatal ==
    SetupFailed =>
        /\ d_pc \in {"unwind", "raised"}
        /\ dynamic_results = <<>>
        /\ run_pc \in {"fetch", "raised"}
        /\ run_log = <<"fetch">>

\* the cookies could not be added and the run has ended by the exception
C16_Witness ==
    /\ run_mode = RUN_DYNAMIC
    /\ "add_cookies" \in d_failures
    /\ run_pc = "raised"
    /\ run_log = <<"fetch">>

\* run_dynamic_analysis has read (or failed to read) static_results.json
StaticLoaded == run_mode = RUN_DYNAMIC /\ "load" \in Range(run_log)

\* the mappings a finished static write has put on disk
CompleteMappings == {w_results} \cup (IF prior.exists THEN {prior.results} ELSE {})

\* one record per list entry, rsi and sma unset, position "N/A"
BareRecords ==
    /\ Len(final_results) = Len(d_list)
    /\ \A k \in 1..Len(final_results) :
        /\ final_results[k].symbol = d_list[k]
        /\ final_results[k].rsi = None
        /\ final_results[k].sma = None
        /\ final_results[k].position = Str(NA)

(* C17: with a static run writing static_results.json while a dynamic run  *)
(* reads it, in any interleaving, the mapping the dynamic run merges with  *)
(* is a complete mapping of one finished static write or the empty         *)
(* mapping, never a part of a mapping; and with the empty mapping the run  *)
(* does not raise and ends with one record per symbol, rsi and sma unset,  *)
(* position "N/A", and empty long and short sets.                          *)
C17_CompleteOrEmptyMapping ==
    StaticLoaded =>
        /\ static_data = <<>> \/ static_data \in CompleteMappings
        /\ static_data = <<>> =>
            /\ run_pc # "raised"
            /\ run_pc = "done" => (BareRecords /\ opportunities = NoOpportunities)

\* the file was read while the static run was writing it, an entry already
\* on disk, and the dynamic run has ended with the empty mapping
C17_Witness ==
    /\ StaticLoaded
    /\ prior.exists
    /\ static_data = <<>>
    /\ w_pc = "write"
    /\ Len(static_file.text) >= 2
    /\ DOMAIN w_results = {AAPL, BRK_A}
    /\ run_pc = "done"
    /\ Len(final_results) = 2

run_vars == <<run_mode, run_pc, run_log>>

\* no run
RunIdle ==
    /\ run_mode = RUN_DYNAMIC
    /\ run_pc = "idle"
    /\ run_log = <<>>

vars == <<static_vars, merge_vars, pm_vars, rank_vars, scrape_vars, run_vars, disk_vars>>

NextStatic ==
    \/ LookupFound /\ UNCHANGED <<merge_vars, pm_vars, rank_vars, scrape_vars, run_vars, disk_vars>>
    \/ LookupPartial /\ UNCHANGED <<merge_vars, pm_vars, rank_vars, scrape_vars, run_vars, disk_vars>>
    \/ LookupNotFound /\ UNCHANGED <<merge_vars, pm_vars, rank_vars, scrape_vars, run_vars, disk_vars>>
    \/ LookupError /\ UNCHANGED <<merge_vars, pm_vars, rank_vars, scrape_vars, run_vars, disk_vars>>
    \/ StoreResult /\ UNCHANGED <<merge_vars, pm_vars, rank_vars, scrape_vars, run_vars, disk_vars>>

StaticStart ==
    /\ InitStatic
    /\ MergeIdle
    /\ PremarketIdle
    /\ RankIdle
    /\ ScrapeIdle
    /\ RunIdle
    /\ DiskIdle

SpecStatic == StaticStart /\ [][NextStatic]_vars

NextMerge ==
    \/ MergeSymbol /\ UNCHANGED <<static_vars, pm_vars, rank_vars, scrape_vars, run_vars, disk_vars>>
    \/ AppendStats /\ UNCHANGED <<static_vars, pm_vars, rank_vars, scrape_vars, run_vars, disk_vars>>
    \/ DumpResults /\ UNCHANGED <<static_vars, pm_vars, rank_vars, scrape_vars, run_vars, disk_vars>>

MergeStart ==
    /\ StaticIdle
    /\ InitMerge
    /\ PremarketIdle
    /\ RankIdle
    /\ ScrapeIdle
    /\ RunIdle
    /\ DiskIdle

SpecMerge == MergeStart /\ [][NextMerge]_vars

NextPremarket ==
    \/ ReadInput /\ UNCHANGED <<static_vars, merge_vars, rank_vars, scrape_vars, run_vars, disk_vars>>
    \/ ReadFails /\ UNCHANGED <<static_vars, merge_vars, rank_vars, scrape_vars, run_vars, disk_vars>>
    \/ FilterStep /\ UNCHANGED <<static_vars, merge_vars, rank_vars, scrape_vars, run_vars, disk_vars>>
    \/ WriteOutput /\ UNCHANGED <<static_vars, merge_vars, rank_vars, scrape_vars, run_vars, disk_vars>>
    \/ WriteFails /\ UNCHANGED <<static_vars, merge_vars, rank_vars, scrape_vars, run_vars, disk_vars>>

PremarketStart ==
    /\ StaticIdle
    /\ MergeIdle
    /\ InitPremarket
    /\ RankIdle
    /\ ScrapeIdle
    /\ RunIdle
    /\ DiskIdle

SpecPremarket == PremarketStart /\ [][NextPremarket]_vars

NextRank ==
    \/ ClassifyStep /\ UNCHANGED <<static_vars, merge_vars, pm_vars, scrape_vars, run_vars, disk_vars>>
    \/ SortCandidates /\ UNCHANGED <<static_vars, merge_vars, pm_vars, scrape_vars, run_vars, disk_vars>>
    \/ SortRaises /\ UNCHANGED <<static_vars, merge_vars, pm_vars, scrape_vars, run_vars, disk_vars>>

RankStart ==
    /\ StaticIdle
    /\ MergeIdle
    /\ PremarketIdle
    /\ InitRank
    /\ ScrapeIdle
    /\ RunIdle
    /\ DiskIdle

SpecRank == RankStart /\ [][NextRank]_vars

NextScrape ==
    \/ SetupStep /\ UNCHANGED <<static_vars, merge_vars, pm_vars, rank_vars, run_vars, disk_vars>>
    \/ SetupFails /\ UNCHANGED <<static_vars, merge_vars, pm_vars, rank_vars, run_vars, disk_vars>>
    \/ ScrapeSymbol /\ UNCHANGED <<static_vars, merge_vars, pm_vars, rank_vars, run_vars, disk_vars>>
    \/ ScrapeRaises /\ UNCHANGED <<static_vars, merge_vars, pm_vars, rank_vars, run_vars, disk_vars>>
    \/ CloseBrowser /\ UNCHANGED <<static_vars, merge_vars, pm_vars, rank_vars, run_vars, disk_vars>>
    \/ ExitPlaywright /\ UNCHANGED <<static_vars, merge_vars, pm_vars, rank_vars, run_vars, disk_vars>>

ScrapeStart ==
    /\ StaticIdle
    /\ MergeIdle
    /\ PremarketIdle
    /\ RankIdle
    /\ InitScrape
    /\ RunIdle
    /\ DiskIdle

SpecScrape == ScrapeStart /\ [][NextScrape]_vars


NextRun ==
    \/ RunBegin /\ UNCHANGED <<static_vars, merge_vars, rank_vars, disk_vars>>
    \/ SetupStep /\ UNCHANGED <<static_vars, merge_vars, pm_vars, rank_vars, run_vars, disk_vars>>
    \/ SetupFails /\ UNCHANGED <<static_vars, merge_vars, pm_vars, rank_vars, run_vars, disk_vars>>
    \/ ScrapeSymbol /\ UNCHANGED <<static_vars, merge_vars, pm_vars, rank_vars, run_vars, disk_vars>>
    \/ ScrapeRaises /\ UNCHANGED <<static_vars, merge_vars, pm_vars, rank_vars, run_vars, disk_vars>>
    \/ CloseBrowser /\ UNCHANGED <<static_vars, merge_vars, pm_vars, rank_vars, run_vars, disk_vars>>
    \/ ExitPlaywright /\ UNCHANGED <<static_vars, merge_vars, pm_vars, rank_vars, run_vars, disk_vars>>
    \/ RunFetchRaises /\ UNCHANGED <<static_vars, merge_vars, pm_vars, rank_vars, scrape_vars, disk_vars>>
    \/ RunLoadStatic /\ UNCHANGED <<static_vars, pm_vars, rank_vars, scrape_vars, disk_vars>>
    \/ (run_pc = "merge" /\ MergeSymbol)
          /\ UNCHANGED <<static_vars, pm_vars, rank_vars, scrape_vars, run_vars, disk_vars>>
    \/ RunDump /\ UNCHANGED <<static_vars, pm_vars, rank_vars, scrape_vars, disk_vars>>
    \/ RunRank /\ UNCHANGED <<static_vars, merge_vars, pm_vars, scrape_vars, disk_vars>>
    \/ ReadInput /\ UNCHANGED <<static_vars, merge_vars, rank_vars, scrape_vars, run_vars, disk_vars>>
    \/ ReadFails /\ UNCHANGED <<static_vars, merge_vars, rank_vars, scrape_vars, run_vars, disk_vars>>
    \/ FilterStep /\ UNCHANGED <<static_vars, merge_vars, rank_vars, scrape_vars, run_vars, disk_vars>>
    \/ WriteOutput /\ UNCHANGED <<static_vars, merge_vars, rank_vars, scrape_vars, run_vars, disk_vars>>
    \/ WriteFails /\ UNCHANGED <<static_vars, merge_vars, rank_vars, scrape_vars, run_vars, disk_vars>>
    \/ MainRank /\ UNCHANGED <<static_vars, merge_vars, pm_vars, scrape_vars, disk_vars>>
    \/ ClassifyStep /\ UNCHANGED <<static_vars, merge_vars, pm_vars, scrape_vars, run_vars, disk_vars>>
    \/ SortCandidates /\ UNCHANGED <<static_vars, merge_vars, pm_vars, scrape_vars, run_vars, disk_vars>>
    \/ RunSend /\ UNCHANGED <<static_vars, merge_vars, pm_vars, rank_vars, scrape_vars, disk_vars>>
    \/ WriterOpen /\ UNCHANGED <<static_vars, merge_vars, pm_vars, rank_vars, scrape_vars, run_vars>>
    \/ WriterWrite /\ UNCHANGED <<static_vars, merge_vars, pm_vars, rank_vars, scrape_vars, run_vars>>
    \/ WriterClose /\ UNCHANGED <<static_vars, merge_vars, pm_vars, rank_vars, scrape_vars, run_vars>>

RunStart ==
    /\ StaticIdle
    /\ MergeIdle
    /\ RankIdle
    /\ InitRun

SpecRun == RunStart /\ [][NextRun]_vars

=============================================================================
